---------------------------- MODULE Spec2Model ----------------------------
(***************************************************************************)
(* A model of the logging subsystem of src/src/logging/logging.c.          *)
(*                                                                         *)
(* The three configuration variables, the print mutex and the streams are  *)
(* the state.  logging_log, logging_aquire_fd and logging_release_fd are   *)
(* executed by threads one source statement at a time: every fprintf is a  *)
(* step of its own, because each of them reads _destination again and no   *)
(* setter takes the mutex.  The setters, logging_init and logging_free     *)
(* are single assignments and are one step each.                           *)
(***************************************************************************)
EXTENDS Integers, Sequences, FiniteSets, TLC

(***************************************************************************)
(* Bounds of the model: the threads, the calls of logging_log and          *)
(* logging_aquire_fd they make together, the writes made through one       *)
(* handle, and the calls (these and the setters') the application makes in *)
(* all.                                                                    *)
(***************************************************************************)
NumThreads == 2
MaxCalls == 2
MaxExt == 1
MaxOps == 3

Threads == 1..NumThreads

(***************************************************************************)
(* logging.h                                                               *)
(***************************************************************************)
LOGGING_LEVEL_NONE == 0
LOGGING_LEVEL_CRITICAL == 1
LOGGING_LEVEL_ERROR == 100
LOGGING_LEVEL_WARNING == 1000
LOGGING_LEVEL_INFO == 10000
LOGGING_LEVEL_DEBUG == 50000
LOGGING_LEVEL_ALL == 65535

\* unsigned short
UShort == 0..65535

\* The thresholds logging_set_level is called with, and the severities the
\* threads log with: below, at and above a threshold in each combination.
Levels == {LOGGING_LEVEL_NONE, LOGGING_LEVEL_ERROR, LOGGING_LEVEL_ALL}
Severities == {LOGGING_LEVEL_NONE, LOGGING_LEVEL_ERROR}

(***************************************************************************)
(* FILE pointers.                                                          *)
(***************************************************************************)
NULL == "NULL"
stdout == "stdout"
stderr == "stderr"
Files == {"file1"}
Streams == {stdout, stderr} \cup Files

(***************************************************************************)
(* The print mutex: the pointer is NULL before logging_init, the mutex is  *)
(* free (0) or owned by a thread (its id), and destroyed by logging_free.  *)
(***************************************************************************)
NoMutex == -1
Destroyed == -2
Unlocked == 0

VARIABLES
    _level,              \* static unsigned short _level
    _timestamp_printed,  \* static char _timestamp_printed
    _destination,        \* static FILE *_destination
    print_mutex,         \* static pthread_mutex_t *print_mutex
    closed,              \* the streams fclose() was called on
    out,                 \* every write to a stream, in the order of the writes
    pc,                  \* per thread: the statement it is at
    op,                  \* per thread: the API function it is in
    level,               \* per thread: the parameter `level`
    fd,                  \* per thread: the handle logging_aquire_fd returned
    nx,                  \* per thread: writes made through the handle
    cnt,                 \* calls of logging_log / logging_aquire_fd the threads made
    ncfg,                \* calls of the setters made
    seen,                \* per thread: the _level read by logging_log's test
    wr,                  \* per thread: fprintf calls of the running logging_log
    npass,               \* logging_log executions that passed the test
    lastdest,            \* the argument of the last logging_set_destination since logging_init
    flushed              \* per thread: the stream the running logging_log flushed

vars == <<_level, _timestamp_printed, _destination, print_mutex, closed, out,
          pc, op, level, fd, nx, cnt, ncfg, seen, wr, npass, lastdest, flushed>>

config == <<_level, _timestamp_printed, _destination>>
locals == <<pc, op, level, fd, nx, cnt, seen, wr, flushed>>

Ready == print_mutex >= Unlocked
Quiescent == \A t \in Threads : pc[t] = "idle" /\ fd[t] = NULL

(***************************************************************************)
(* Static initialisers, logging.c lines 42-58.                             *)
(***************************************************************************)
Init ==
    /\ _level = 0
    /\ _timestamp_printed = 1
    /\ _destination = NULL
    /\ print_mutex = NoMutex
    /\ closed = {}
    /\ out = <<>>
    /\ pc = [t \in Threads |-> "idle"]
    /\ op = [t \in Threads |-> "none"]
    /\ level = [t \in Threads |-> 0]
    /\ fd = [t \in Threads |-> NULL]
    /\ nx = [t \in Threads |-> 0]
    /\ cnt = 0
    /\ ncfg = 0
    /\ seen = [t \in Threads |-> -1]
    /\ wr = [t \in Threads |-> 0]
    /\ npass = 0
    /\ lastdest = "-"
    /\ flushed = [t \in Threads |-> "-"]

(***************************************************************************)
(* logging_init, logging_free                                              *)
(***************************************************************************)
logging_init ==
    /\ print_mutex = NoMutex
    /\ _destination' = stdout
    /\ _level' = LOGGING_LEVEL_ALL
    /\ print_mutex' = Unlocked
    /\ lastdest' = "-"
    /\ UNCHANGED <<_timestamp_printed, closed, out, locals, npass, ncfg>>

\* the standard streams not excepted
FreeCloses_any(d) == d # NULL

\* line 75
FreeCloses(d) == d # NULL /\ d # stdout /\ d # stderr

\* Called after all logging activity has ceased (destroying a locked mutex
\* is undefined).
logging_free ==
    /\ Ready
    /\ Quiescent
    /\ closed' = IF FreeCloses(_destination) THEN closed \cup {_destination} ELSE closed
    /\ print_mutex' = Destroyed
    /\ UNCHANGED <<config, out, locals, npass, lastdest, ncfg>>

(***************************************************************************)
(* The configuration accessors.                                            *)
(***************************************************************************)
\* a setter that takes the mutex for its assignment
logging_set_level_locked(l) ==
    /\ print_mutex \in {NoMutex, Unlocked}
    /\ _level' = l
    /\ UNCHANGED <<_timestamp_printed, _destination, print_mutex, closed, out,
                   locals, npass, lastdest>>

logging_set_level(l) ==
    /\ print_mutex # Destroyed
    /\ _level' = l
    /\ UNCHANGED <<_timestamp_printed, _destination, print_mutex, closed, out,
                   locals, npass, lastdest>>

logging_get_level == _level

\* no test for NULL
SetDestinationStores_always(destination) == TRUE

\* line 125
SetDestinationStores(destination) == destination # NULL

logging_set_destination(destination) ==
    /\ print_mutex # Destroyed
    /\ _destination' = IF SetDestinationStores(destination)
                       THEN destination ELSE _destination
    /\ lastdest' = destination
    /\ UNCHANGED <<_level, _timestamp_printed, print_mutex, closed, out,
                   locals, npass>>

logging_get_destination == _destination

logging_set_timestamp_printed(timestamp_printed) ==
    /\ print_mutex # Destroyed
    /\ _timestamp_printed' = timestamp_printed
    /\ UNCHANGED <<_level, _destination, print_mutex, closed, out,
                   locals, npass, lastdest>>

(***************************************************************************)
(* Writes.  A write is recorded with the thread that made it, the fprintf  *)
(* it came from, its text and the stream it went to.                       *)
(***************************************************************************)
Rec(t, part, num, txt, d) ==
    [th |-> t, part |-> part, num |-> num, txt |-> txt, dst |-> d]

fprintf(t, part, num, txt, d) ==
    /\ out' = Append(out, Rec(t, part, num, txt, d))
    /\ wr' = [wr EXCEPT ![t] = @ + 1]

(***************************************************************************)
(* pthread_mutex_lock blocks until the mutex is free.  The mutex is        *)
(* initialised with attributes NULL (line 68) and so is of the default     *)
(* kind.  POSIX does not define what a second lock by the owner of such a  *)
(* mutex does; with glibc the default kind is the normal kind, whose       *)
(* second lock by the owner waits like any other, and that is modelled.    *)
(***************************************************************************)
\* a lock that does not wait
MutexAvailable_nowait == print_mutex >= Unlocked

MutexAvailable == print_mutex = Unlocked

\* a recursive mutex
pthread_mutex_lock_recursive(t) ==
    /\ print_mutex \in {Unlocked, t}
    /\ print_mutex' = t

pthread_mutex_lock(t) ==
    /\ MutexAvailable
    /\ print_mutex' = t

pthread_mutex_unlock(t) ==
    /\ print_mutex' = Unlocked

(***************************************************************************)
(* logging_log, lines 157-188.                                             *)
(***************************************************************************)
\* the test written with < instead of <=
LogPasses_lt(lvl) == lvl < _level

\* line 161
LogPasses(lvl) == lvl <= _level

\* the ERROR boundary tested with > instead of >=
TierLabel_gt(lvl) ==
    IF lvl >= LOGGING_LEVEL_DEBUG THEN "DEBUG"
    ELSE IF lvl >= LOGGING_LEVEL_INFO THEN "INFO"
    ELSE IF lvl >= LOGGING_LEVEL_WARNING THEN "WARNING"
    ELSE IF lvl > LOGGING_LEVEL_ERROR THEN "ERROR"
    ELSE "CRITICAL"

\* lines 164-173
TierLabel(lvl) ==
    IF lvl >= LOGGING_LEVEL_DEBUG THEN "DEBUG"
    ELSE IF lvl >= LOGGING_LEVEL_INFO THEN "INFO"
    ELSE IF lvl >= LOGGING_LEVEL_WARNING THEN "WARNING"
    ELSE IF lvl >= LOGGING_LEVEL_ERROR THEN "ERROR"
    ELSE "CRITICAL"

\* the `module` and `message` arguments: a caller's own, or the framing
\* messages of lines 209 and 225
ModuleOf(o) == IF o = "log" THEN "Module" ELSE "Logging"

\* the closing message a copy of the opening one
MessageOf_copied(o) ==
    IF o = "log" THEN "message" ELSE "*** External logging started..."

MessageOf(o) ==
    IF o = "aquire" THEN "*** External logging started..."
    ELSE IF o = "release" THEN "*** External logging ended..."
    ELSE "message"

Goto(t, l) == pc' = [pc EXCEPT ![t] = l]

log_test(t) ==
    /\ pc[t] = "log_test"
    /\ seen' = [seen EXCEPT ![t] = _level]
    /\ IF LogPasses(level[t])
       THEN Goto(t, "log_lock") /\ npass' = npass + 1
       ELSE Goto(t, "log_ret") /\ npass' = npass
    /\ UNCHANGED <<config, print_mutex, closed, out, op, level, fd, nx, cnt, wr, lastdest, ncfg, flushed>>

log_lock(t) ==
    /\ pc[t] = "log_lock"
    /\ pthread_mutex_lock(t)
    /\ Goto(t, "log_tag")
    /\ UNCHANGED <<config, closed, out, op, level, fd, nx, cnt, seen, wr, npass, lastdest, ncfg, flushed>>

log_tag(t) ==
    /\ pc[t] = "log_tag"
    /\ fprintf(t, "tag", level[t], TierLabel(level[t]), _destination)
    /\ Goto(t, "log_ts")
    /\ UNCHANGED <<config, print_mutex, closed, op, level, fd, nx, cnt, seen, npass, lastdest, ncfg, flushed>>

\* the timestamp printed whatever the flag
TimestampWanted_always == TRUE

\* line 175
TimestampWanted == _timestamp_printed # 0

log_ts(t) ==
    /\ pc[t] = "log_ts"
    /\ Goto(t, IF TimestampWanted THEN "log_at" ELSE "log_close")
    /\ UNCHANGED <<config, print_mutex, closed, out, op, level, fd, nx, cnt, seen, wr,
                   npass, lastdest, ncfg, flushed>>

\* line 176
log_at(t) ==
    /\ pc[t] = "log_at"
    /\ fprintf(t, "at", -1, "@", _destination)
    /\ Goto(t, "log_stamp")
    /\ UNCHANGED <<config, print_mutex, closed, op, level, fd, nx, cnt, seen, npass, lastdest, ncfg, flushed>>

\* line 177: timestamp_print, lines 84-95
timestamp_print(t) ==
    /\ pc[t] = "log_stamp"
    /\ fprintf(t, "stamp", -1, "DD.MM.YYYY/HH:MM:SS", _destination)
    /\ Goto(t, "log_close")
    /\ UNCHANGED <<config, print_mutex, closed, op, level, fd, nx, cnt, seen, npass, lastdest, ncfg, flushed>>

\* line 179
log_close(t) ==
    /\ pc[t] = "log_close"
    /\ fprintf(t, "close", -1, "] ", _destination)
    /\ Goto(t, "log_module")
    /\ UNCHANGED <<config, print_mutex, closed, op, level, fd, nx, cnt, seen, npass, lastdest, ncfg, flushed>>

\* line 181
log_module(t) ==
    /\ pc[t] = "log_module"
    /\ fprintf(t, "module", -1, ModuleOf(op[t]), _destination)
    /\ Goto(t, "log_body")
    /\ UNCHANGED <<config, print_mutex, closed, op, level, fd, nx, cnt, seen, npass, lastdest, ncfg, flushed>>

\* line 182
log_body(t) ==
    /\ pc[t] = "log_body"
    /\ fprintf(t, "body", -1, MessageOf(op[t]), _destination)
    /\ Goto(t, "log_nl")
    /\ UNCHANGED <<config, print_mutex, closed, op, level, fd, nx, cnt, seen, npass, lastdest, ncfg, flushed>>

\* line 183
log_nl(t) ==
    /\ pc[t] = "log_nl"
    /\ fprintf(t, "nl", -1, "\n", _destination)
    /\ Goto(t, "log_unlock")
    /\ UNCHANGED <<config, print_mutex, closed, op, level, fd, nx, cnt, seen, npass, lastdest, ncfg, flushed>>

\* the mutex kept
log_unlock_kept(t) ==
    /\ pc[t] = "log_unlock"
    /\ Goto(t, "log_flush")
    /\ UNCHANGED <<config, print_mutex, closed, out, op, level, fd, nx, cnt, seen, wr,
                   npass, lastdest, ncfg, flushed>>

\* line 185
log_unlock(t) ==
    /\ pc[t] = "log_unlock"
    /\ pthread_mutex_unlock(t)
    /\ Goto(t, "log_flush")
    /\ UNCHANGED <<config, closed, out, op, level, fd, nx, cnt, seen, wr, npass, lastdest, ncfg, flushed>>

\* line 186: fflush of the stream _destination is now; it writes nothing new
log_flush(t) ==
    /\ pc[t] = "log_flush"
    /\ flushed' = [flushed EXCEPT ![t] = _destination]
    /\ Goto(t, "log_ret")
    /\ UNCHANGED <<config, print_mutex, closed, out, op, level, fd, nx, cnt, seen, wr,
                   npass, lastdest, ncfg>>

\* line 188: back in the caller, which is the application, line 210 or line 226
log_return(t) ==
    /\ pc[t] = "log_ret"
    /\ seen' = [seen EXCEPT ![t] = -1]
    /\ wr' = [wr EXCEPT ![t] = 0]
    /\ flushed' = [flushed EXCEPT ![t] = "-"]
    /\ IF op[t] = "log"
       THEN /\ Goto(t, "idle")
            /\ op' = [op EXCEPT ![t] = "none"]
            /\ level' = [level EXCEPT ![t] = 0]
       ELSE /\ Goto(t, IF op[t] = "aquire" THEN "aq_lock" ELSE "rl_ret")
            /\ UNCHANGED <<op, level>>
    /\ UNCHANGED <<config, print_mutex, closed, out, fd, nx, cnt, npass, lastdest, ncfg>>

logging_log(t) ==
    \/ log_test(t)
    \/ log_lock(t)
    \/ log_tag(t)
    \/ log_ts(t)
    \/ log_at(t)
    \/ timestamp_print(t)
    \/ log_close(t)
    \/ log_module(t)
    \/ log_body(t)
    \/ log_nl(t)
    \/ log_unlock(t)
    \/ log_flush(t)
    \/ log_return(t)

(***************************************************************************)
(* logging_aquire_fd, lines 207-215.                                       *)
(***************************************************************************)
\* the test written with < instead of <=
AquirePasses_lt(lvl) == lvl < _level

\* line 208
AquirePasses(lvl) == lvl <= _level

\* line 211
AquireResult == _destination

aq_test(t) ==
    /\ pc[t] = "aq_test"
    /\ IF AquirePasses(level[t])
       THEN Goto(t, "log_test") /\ fd' = fd
       ELSE \* line 214: NULL is returned; a handle the thread has from an
            \* earlier call is still the handle it has
            Goto(t, "aq_ret") /\ fd' = [fd EXCEPT ![t] = IF @ = NULL THEN NULL ELSE @]
    /\ UNCHANGED <<config, print_mutex, closed, out, op, level, nx, cnt, seen, wr,
                   npass, lastdest, ncfg, flushed>>

\* line 210
aq_lock(t) ==
    /\ pc[t] = "aq_lock"
    /\ pthread_mutex_lock(t)
    /\ Goto(t, "aq_result")
    /\ UNCHANGED <<config, closed, out, op, level, fd, nx, cnt, seen, wr, npass, lastdest, ncfg, flushed>>

\* line 211
aq_result(t) ==
    /\ pc[t] = "aq_result"
    /\ fd' = [fd EXCEPT ![t] = AquireResult]
    /\ Goto(t, "aq_ret")
    /\ UNCHANGED <<config, print_mutex, closed, out, op, level, nx, cnt, seen, wr,
                   npass, lastdest, ncfg, flushed>>

\* the caller has the result
aq_return(t) ==
    /\ pc[t] = "aq_ret"
    /\ Goto(t, "idle")
    /\ op' = [op EXCEPT ![t] = "none"]
    /\ level' = [level EXCEPT ![t] = 0]
    /\ UNCHANGED <<config, print_mutex, closed, out, fd, nx, cnt, seen, wr, npass, lastdest, ncfg, flushed>>

logging_aquire_fd(t) ==
    \/ aq_test(t)
    \/ aq_lock(t)
    \/ aq_result(t)
    \/ aq_return(t)

(***************************************************************************)
(* logging_release_fd, lines 223-226.                                      *)
(***************************************************************************)
\* the mutex released only for a level that passes
rl_unlock_filtered(t) ==
    /\ pc[t] = "rl_unlock"
    /\ IF level[t] <= _level
       THEN /\ pthread_mutex_unlock(t)
            /\ fd' = [fd EXCEPT ![t] = NULL]
            /\ Goto(t, "log_test")
       ELSE /\ Goto(t, "rl_ret")
            /\ UNCHANGED <<print_mutex, fd>>
    /\ UNCHANGED <<config, closed, out, op, level, nx, cnt, seen, wr, npass, lastdest, ncfg, flushed>>

\* line 224; line 225 is the call of logging_log
rl_unlock(t) ==
    /\ pc[t] = "rl_unlock"
    /\ pthread_mutex_unlock(t)
    /\ fd' = [fd EXCEPT ![t] = NULL]
    /\ Goto(t, "log_test")
    /\ UNCHANGED <<config, closed, out, op, level, nx, cnt, seen, wr, npass, lastdest, ncfg, flushed>>

rl_return(t) ==
    /\ pc[t] = "rl_ret"
    /\ Goto(t, "idle")
    /\ op' = [op EXCEPT ![t] = "none"]
    /\ level' = [level EXCEPT ![t] = 0]
    /\ nx' = [nx EXCEPT ![t] = 0]
    /\ UNCHANGED <<config, print_mutex, closed, out, fd, cnt, seen, wr, npass, lastdest, ncfg, flushed>>

logging_release_fd(t) ==
    \/ rl_unlock(t)
    \/ rl_return(t)

(***************************************************************************)
(* The application: a thread that is in no call makes one, between          *)
(* logging_init and logging_free (before logging_init print_mutex is NULL, *)
(* after logging_free it is destroyed, and locking either is undefined).   *)
(* A thread that holds a handle may write through it, may call logging_log *)
(* and releases the handle with a level of its choice.  logging_release_fd *)
(* is called only by a thread that was given a handle, as the comment of   *)
(* lines 203-205 demands: unlocking a mutex one does not hold is           *)
(* undefined.  fd is the caller's copy of the handle, given up at the      *)
(* unlock of line 224.                                                     *)
(***************************************************************************)
CallLog(t, l) ==
    /\ Ready
    /\ pc[t] = "idle"
    /\ cnt < MaxCalls
    /\ cnt + ncfg < MaxOps
    /\ cnt' = cnt + 1
    /\ op' = [op EXCEPT ![t] = "log"]
    /\ level' = [level EXCEPT ![t] = l]
    /\ Goto(t, "log_test")
    /\ UNCHANGED <<config, print_mutex, closed, out, fd, nx, seen, wr, npass, lastdest, ncfg, flushed>>

CallAquire(t, l) ==
    /\ Ready
    /\ pc[t] = "idle"
    /\ fd[t] = NULL
    /\ cnt < MaxCalls
    /\ cnt + ncfg < MaxOps
    /\ cnt' = cnt + 1
    /\ op' = [op EXCEPT ![t] = "aquire"]
    /\ level' = [level EXCEPT ![t] = l]
    /\ Goto(t, "aq_test")
    /\ UNCHANGED <<config, print_mutex, closed, out, fd, nx, seen, wr, npass, lastdest, ncfg, flushed>>

CallRelease(t, l) ==
    /\ Ready
    /\ pc[t] = "idle"
    /\ fd[t] # NULL
    /\ op' = [op EXCEPT ![t] = "release"]
    /\ level' = [level EXCEPT ![t] = l]
    /\ Goto(t, "rl_unlock")
    /\ UNCHANGED <<config, print_mutex, closed, out, fd, nx, cnt, seen, wr, npass, lastdest, ncfg, flushed>>

ExternalWrite(t) ==
    /\ pc[t] = "idle"
    /\ fd[t] # NULL
    /\ nx[t] < MaxExt
    /\ nx' = [nx EXCEPT ![t] = @ + 1]
    /\ out' = Append(out, Rec(t, "ext", -1, "X", fd[t]))
    /\ UNCHANGED <<config, print_mutex, closed, pc, op, level, fd, cnt, seen, wr,
                   npass, lastdest, ncfg, flushed>>

Application(t) ==
    \/ \E l \in Severities : CallLog(t, l)
    \/ \E l \in Severities : CallAquire(t, l)
    \/ \E l \in Severities : CallRelease(t, l)
    \/ ExternalWrite(t)

ThreadStep ==
    \E t \in Threads :
        \/ Application(t)
        \/ logging_log(t)
        \/ logging_aquire_fd(t)
        \/ logging_release_fd(t)

\* The application's calls of the setters: each is one of its MaxOps calls.
Budget == cnt + ncfg < MaxOps /\ ncfg' = ncfg + 1

Configure ==
    \/ \E l \in Levels : Budget /\ logging_set_level(l)
    \/ \E d \in Streams \cup {NULL} : Budget /\ logging_set_destination(d)
    \/ \E b \in {0, 1} : Budget /\ logging_set_timestamp_printed(b)

Lifecycle ==
    \/ logging_init
    \/ logging_free

(***************************************************************************)
(* Spec: the setters run at any moment, also while a thread is inside a    *)
(* call.                                                                   *)
(***************************************************************************)
Next == ThreadStep \/ Configure \/ Lifecycle

Spec == Init /\ [][Next]_vars

(***************************************************************************)
(* SpecQuiet: the configuration is changed only while no thread is inside  *)
(* a call or holds a handle.                                               *)
(***************************************************************************)
NextQuiet == ThreadStep \/ (Quiescent /\ Configure) \/ Lifecycle

SpecQuiet == Init /\ [][NextQuiet]_vars

(***************************************************************************)
(* SpecNested: as Spec, and a thread that holds a handle may also call     *)
(* logging_aquire_fd again.                                                *)
(***************************************************************************)
CallAquireHeld(t, l) ==
    /\ Ready
    /\ pc[t] = "idle"
    /\ fd[t] # NULL
    /\ cnt < MaxCalls
    /\ cnt + ncfg < MaxOps
    /\ cnt' = cnt + 1
    /\ op' = [op EXCEPT ![t] = "aquire"]
    /\ level' = [level EXCEPT ![t] = l]
    /\ Goto(t, "aq_test")
    /\ UNCHANGED <<config, print_mutex, closed, out, fd, nx, seen, wr, npass, lastdest, ncfg, flushed>>

NestedStep == \E t \in Threads : \E l \in Severities : CallAquireHeld(t, l)

NextNested == ThreadStep \/ NestedStep \/ Configure \/ Lifecycle

SpecNested == Init /\ [][NextNested]_vars

(***************************************************************************)
(* SpecProper: the use the comments of lines 197-198 and 203-205 ask for,  *)
(* under a fair scheduler.  A thread that holds a handle calls logging_log *)
(* only with a level above the threshold, calls logging_aquire_fd not at   *)
(* all, and comes to call logging_release_fd; the configuration is changed *)
(* only while no thread is inside a call or holds a handle, so that the    *)
(* threshold such a call is tested against is the one its caller saw.      *)
(* Every thread inside a call comes to take its next step, and a thread    *)
(* waiting at pthread_mutex_lock gets the mutex if it is free again and    *)
(* again.                                                                  *)
(***************************************************************************)
NoReentry(t, l) == fd[t] # NULL => ~LogPasses(l)

InCall(t) == logging_log(t) \/ logging_aquire_fd(t) \/ logging_release_fd(t)

ProperStep ==
    \E t \in Threads :
        \/ \E l \in Severities : NoReentry(t, l) /\ CallLog(t, l)
        \/ \E l \in Severities : CallAquire(t, l)
        \/ \E l \in Severities : CallRelease(t, l)
        \/ ExternalWrite(t)
        \/ logging_log(t)
        \/ logging_aquire_fd(t)
        \/ logging_release_fd(t)

NextProper == ProperStep \/ (Quiescent /\ Configure) \/ Lifecycle

Fairness ==
    \A t \in Threads :
        /\ SF_vars(InCall(t))
        /\ WF_vars(\E l \in Severities : CallRelease(t, l))

SpecProper == Init /\ [][NextProper]_vars /\ Fairness

(***************************************************************************)
(* SpecTier: logging_init has run and one thread has called logging_log    *)
(* with a level that is any unsigned short; the call runs to its return.   *)
(***************************************************************************)
InitTier ==
    /\ _level = LOGGING_LEVEL_ALL
    /\ _timestamp_printed = 1
    /\ _destination = stdout
    /\ print_mutex = Unlocked
    /\ closed = {}
    /\ out = <<>>
    /\ pc = [t \in Threads |-> IF t = 1 THEN "log_test" ELSE "idle"]
    /\ op = [t \in Threads |-> IF t = 1 THEN "log" ELSE "none"]
    /\ level \in {[t \in Threads |-> IF t = 1 THEN l ELSE 0] : l \in UShort}
    /\ fd = [t \in Threads |-> NULL]
    /\ nx = [t \in Threads |-> 0]
    /\ cnt = 1
    /\ ncfg = 0
    /\ seen = [t \in Threads |-> -1]
    /\ wr = [t \in Threads |-> 0]
    /\ npass = 0
    /\ lastdest = "-"
    /\ flushed = [t \in Threads |-> "-"]

NextTier == \E t \in Threads : logging_log(t)

SpecTier == InitTier /\ [][NextTier]_vars

(***************************************************************************)
(* The lines of a stream.                                                  *)
(***************************************************************************)
StreamOf(d) == SelectSeq(out, LAMBDA r : r.dst = d)
WritesOf(t) == SelectSeq(out, LAMBDA r : r.th = t)

StampedLine == <<"tag", "at", "stamp", "close", "module", "body", "nl">>
PlainLine == <<"tag", "close", "module", "body", "nl">>

\* s[i .. i+n-1] are the first n parts of a line of shape P, all written by
\* the thread that wrote s[i]
PartsAt(s, i, n, P) ==
    \A k \in 1..n : s[i + k - 1].part = P[k] /\ s[i + k - 1].th = s[i].th

CompleteAt(s, i, P) == i + Len(P) - 1 <= Len(s) /\ PartsAt(s, i, Len(P), P)
PartialAt(s, i, P) == Len(s) - i + 1 < Len(P) /\ PartsAt(s, i, Len(s) - i + 1, P)

InLine == {"log_tag", "log_ts", "log_at", "log_stamp", "log_close", "log_module",
           "log_body", "log_nl"}

\* The number of complete lines of s from position i on, or -1 when s is not a
\* sequence of complete lines and handle-written texts, ended at most by the
\* begun line of the thread that is writing one.
RECURSIVE CountLines(_, _)
CountLines(s, i) ==
    IF i > Len(s) THEN 0
    ELSE IF s[i].part = "ext" THEN CountLines(s, i + 1)
    ELSE IF CompleteAt(s, i, StampedLine) \/ CompleteAt(s, i, PlainLine)
    THEN LET P == IF CompleteAt(s, i, StampedLine) THEN StampedLine ELSE PlainLine
             n == CountLines(s, i + Len(P))
         IN  IF n < 0 THEN -1 ELSE n + 1
    ELSE IF /\ PartialAt(s, i, StampedLine) \/ PartialAt(s, i, PlainLine)
            /\ print_mutex = s[i].th
            /\ pc[s[i].th] \in InLine
    THEN 0
    ELSE -1

RECURSIVE SumLines(_)
SumLines(D) ==
    IF D = {} THEN 0
    ELSE LET d == CHOOSE x \in D : TRUE
         IN  CountLines(StreamOf(d), 1) + SumLines(D \ {d})

\* the threads whose message passed the test and whose line is not complete yet
Unfinished == {t \in Threads : pc[t] \in InLine \cup {"log_lock"}}

(***************************************************************************)
(* C1: while the configuration is changed only between calls, every output *)
(* stream is a sequence of complete lines (tag, optional timestamp,        *)
(* module, body, newline, all of one thread, contiguous) and of texts      *)
(* written through a handle, and the complete lines are exactly the        *)
(* messages that passed the filter and have been written.                  *)
(***************************************************************************)
C1_NoInterleaving ==
    /\ \A d \in Streams : CountLines(StreamOf(d), 1) >= 0
    /\ SumLines(Streams) = npass - Cardinality(Unfinished)

\* two threads have each logged one message to the same stream, the second
\* having waited for the first
C1_Witness ==
    /\ Quiescent
    /\ npass = 2
    /\ \E d \in Streams :
         /\ CountLines(StreamOf(d), 1) = 2
         /\ {StreamOf(d)[i].th : i \in DOMAIN StreamOf(d)} = {1, 2}

TierBounds ==
    {<<0, "CRITICAL">>, <<100, "ERROR">>, <<1000, "WARNING">>, <<10000, "INFO">>,
     <<50000, "DEBUG">>}

HighestTier(s) ==
    LET b == CHOOSE x \in TierBounds :
                 x[1] <= s /\ \A y \in TierBounds : y[1] <= s => y[1] <= x[1]
    IN  b[2]

RangeTier(s) ==
    CASE s \in 0..99 -> "CRITICAL"
      [] s \in 100..999 -> "ERROR"
      [] s \in 1000..9999 -> "WARNING"
      [] s \in 10000..49999 -> "INFO"
      [] s \in 50000..65535 -> "DEBUG"

(***************************************************************************)
(* C3: the tier label logging_log writes for a level in 0..65535 is the    *)
(* label of the highest tier whose lower bound is at most the level:       *)
(* 0..99 CRITICAL, 100..999 ERROR, 1000..9999 WARNING, 10000..49999 INFO,  *)
(* 50000..65535 DEBUG.                                                     *)
(***************************************************************************)
C3_TierMapping ==
    \A i \in DOMAIN out :
        out[i].part = "tag" =>
            /\ out[i].num \in UShort
            /\ out[i].txt = RangeTier(out[i].num)
            /\ out[i].txt = HighestTier(out[i].num)
            /\ pc[out[i].th] # "idle" => out[i].num = level[out[i].th]

C3_Witness ==
    \E i \in DOMAIN out :
        out[i].part = "tag" /\ out[i].num = 9999 /\ out[i].txt = "WARNING"

LastWrites(t, n) == SubSeq(WritesOf(t), Len(WritesOf(t)) - n + 1, Len(WritesOf(t)))

\* W is one line of thread-written parts with this level, module and message
IsLineOf(W, lvl, mod, msg) ==
    /\ \/ Len(W) = Len(StampedLine) /\ CompleteAt(W, 1, StampedLine)
       \/ Len(W) = Len(PlainLine) /\ CompleteAt(W, 1, PlainLine)
    /\ W[1].num = lvl
    /\ W[1].txt = HighestTier(lvl)
    /\ W[Len(W) - 2].txt = mod
    /\ W[Len(W) - 1].txt = msg

\* what a call writes as module and message: the application's own, or the
\* framing lines of logging_aquire_fd and logging_release_fd
ExpectedModule(o) == IF o = "log" THEN "Module" ELSE "Logging"
ExpectedMessage(o) ==
    CASE o = "log" -> "message"
      [] o = "aquire" -> "*** External logging started..."
      [] o = "release" -> "*** External logging ended..."

C2_AtReturn ==
    \A t \in Threads :
        /\ pc[t] = "log_ret" =>
              IF level[t] <= seen[t]
              THEN /\ wr[t] <= Len(WritesOf(t))
                   /\ IsLineOf(LastWrites(t, wr[t]), level[t],
                               ExpectedModule(op[t]), ExpectedMessage(op[t]))
              ELSE wr[t] = 0
        /\ pc[t] \in InLine \cup {"log_lock", "log_unlock", "log_flush"} =>
              level[t] <= seen[t]

C2_TestStep ==
    \A t \in Threads :
        pc[t] = "log_test" /\ pc'[t] # "log_test" =>
            /\ seen'[t] = _level
            /\ IF level[t] <= _level
               THEN pc'[t] = "log_lock"
               ELSE /\ pc'[t] = "log_ret"
                    /\ UNCHANGED <<config, print_mutex, closed, out, fd, npass>>

(***************************************************************************)
(* C2: logging_log with a level above the threshold it reads at its test   *)
(* returns at once having written nothing, taken no lock and changed       *)
(* nothing; with a level at or below that threshold it writes exactly one  *)
(* line, with its level, module and message.  The threshold is the value   *)
(* of _level at the moment of the test, whatever set_level calls preceded. *)
(***************************************************************************)
C2_Filter == []C2_AtReturn /\ [][C2_TestStep]_vars

\* one message has been written, the threshold was lowered, and a call with a
\* level above it has come to its return
C2_Witness ==
    \E t \in Threads :
        /\ pc[t] = "log_ret"
        /\ level[t] > seen[t]
        /\ wr[t] = 0
        /\ npass = 1
        /\ CountLines(out, 1) = 1

C4_Step ==
    \A t \in Threads :
        /\ pc[t] = "aq_test" /\ pc'[t] # "aq_test" =>
              IF level[t] > _level
              THEN /\ pc'[t] = "aq_ret"
                   /\ fd'[t] = NULL
                   /\ UNCHANGED <<config, print_mutex, closed, out, npass>>
              ELSE pc'[t] = "log_test"
        /\ pc[t] # "aq_ret" /\ pc'[t] = "aq_ret" =>
              IF pc[t] = "aq_test"
              THEN level[t] > _level /\ fd'[t] = NULL
              ELSE /\ fd'[t] = logging_get_destination'
                   /\ fd'[t] # NULL
                   /\ print_mutex' = t

C4_AtReturn ==
    \A t \in Threads :
        pc[t] = "aq_ret" => (fd[t] = NULL <=> print_mutex # t)

(***************************************************************************)
(* C4: logging_aquire_fd with a level above the threshold returns NULL,    *)
(* having written nothing and left the mutex alone; otherwise it returns   *)
(* the destination current at its return and the caller holds the mutex.   *)
(* The result is NULL exactly when the caller does not hold the mutex.     *)
(***************************************************************************)
C4_Aquire == []C4_AtReturn /\ [][C4_Step]_vars

\* one thread was given the handle, the threshold was lowered, the other
\* thread was given NULL
C4_Witness ==
    \E t, u \in Threads :
        /\ fd[t] # NULL /\ print_mutex = t
        /\ pc[u] = "aq_ret" /\ fd[u] = NULL /\ level[u] > _level

LineLen == IF _timestamp_printed # 0 THEN Len(StampedLine) ELSE Len(PlainLine)

(***************************************************************************)
(* C5: with the configuration unchanged from the call of logging_aquire_fd *)
(* to the return of logging_release_fd and the level passing the filter,   *)
(* the thread's writes of that time are the opening line of module         *)
(* "Logging", then what it wrote through the handle, then the closing line *)
(* of module "Logging", all on the destination stream.                     *)
(***************************************************************************)
C5_Framing ==
    \A t \in Threads :
        pc[t] = "rl_ret" /\ level[t] <= _level =>
            LET n == 2 * LineLen + nx[t]
                W == LastWrites(t, n)
            IN  /\ n <= Len(WritesOf(t))
                /\ IsLineOf(SubSeq(W, 1, LineLen), W[1].num, "Logging",
                            "*** External logging started...")
                /\ W[1].num <= _level
                /\ \A i \in LineLen + 1 .. LineLen + nx[t] : W[i].part = "ext"
                /\ IsLineOf(SubSeq(W, LineLen + nx[t] + 1, n), level[t], "Logging",
                            "*** External logging ended...")
                /\ \A i \in 1..n : W[i].dst = _destination
                /\ Cardinality({i \in 1..n : W[i].txt = "Logging"}) = 2

C5_Witness ==
    \E t \in Threads :
        /\ pc[t] = "rl_ret"
        /\ level[t] <= _level
        /\ nx[t] = 1
        /\ wr[t] = 0
        /\ Len(WritesOf(t)) = 2 * LineLen + 1

HoldsLock(t) ==
    \/ pc[t] \in InLine \cup {"log_unlock", "aq_result"}
    \/ fd[t] # NULL

C6_OneHolder ==
    /\ Cardinality({t \in Threads : HoldsLock(t)}) <= 1
    /\ \A t \in Threads : HoldsLock(t) => print_mutex = t

C6_OwnerWrites ==
    \A t \in Threads :
        fd[t] # NULL /\ out' # out =>
            /\ Len(out') = Len(out) + 1
            /\ out'[Len(out')].th = t

(***************************************************************************)
(* C6: at most one thread holds the mutex, and while a thread has the      *)
(* handle logging_aquire_fd gave it, nothing is written by another thread. *)
(***************************************************************************)
C6_MutualExclusion == []C6_OneHolder /\ [][C6_OwnerWrites]_vars

\* a thread has the handle and has written through it while the other thread
\* waits for the mutex
C6_Witness ==
    \E t, u \in Threads :
        /\ fd[t] # NULL /\ pc[t] = "idle" /\ nx[t] = 1
        /\ pc[u] = "log_lock"

C7_NeverNull == Ready => logging_get_destination \in Streams

C7_NonNullStored ==
    lastdest \notin {"-", NULL} => logging_get_destination = lastdest

C7_NullIgnored ==
    lastdest' = NULL => logging_get_destination' = logging_get_destination

(***************************************************************************)
(* C7: logging_set_destination(NULL) leaves the destination as it was,     *)
(* logging_set_destination(d) with d not NULL makes it d, and between      *)
(* logging_init and logging_free the destination is never NULL.            *)
(***************************************************************************)
C7_Destination == [](C7_NeverNull /\ C7_NonNullStored) /\ [][C7_NullIgnored]_vars

\* the destination was set to a file and then logging_set_destination(NULL)
\* was called
C7_Witness == Ready /\ lastdest = NULL /\ logging_get_destination = "file1"

C8_InitStep ==
    print_mutex = NoMutex /\ print_mutex' # NoMutex =>
        /\ _destination' = stdout
        /\ _level' = LOGGING_LEVEL_ALL
        /\ _timestamp_printed' # 0
        /\ print_mutex' = Unlocked

(***************************************************************************)
(* C8: logging_init leaves the destination at stdout, the threshold at ALL *)
(* and the timestamp switched on, whatever they were before, and the mutex *)
(* free.                                                                   *)
(***************************************************************************)
C8_InitDefaults == [][C8_InitStep]_vars

C9_CloseStep ==
    /\ closed' # closed =>
          /\ Ready /\ print_mutex' = Destroyed
          /\ closed' = closed \cup {_destination}
          /\ _destination \notin {NULL, stdout, stderr}
    /\ _destination' # _destination => closed' = closed

C9_Closed ==
    /\ closed \subseteq Files
    /\ closed # {} => print_mutex = Destroyed /\ closed = {_destination}

(***************************************************************************)
(* C9: a stream is closed only by logging_free, which closes only the      *)
(* destination of that moment and only if it is neither stdout nor stderr; *)
(* logging_set_destination closes nothing.                                 *)
(***************************************************************************)
C9_OnlyFreeCloses == []C9_Closed /\ [][C9_CloseStep]_vars

\* a file was the destination and was written to, was replaced, and is not
\* closed after logging_free
C9_Witness ==
    /\ print_mutex = Destroyed
    /\ closed = {}
    /\ \E i \in DOMAIN out : out[i].dst = "file1"

C10_Step ==
    \A t \in Threads :
        /\ pc[t] = "log_test" /\ pc'[t] # "log_test" /\ op[t] = "log" =>
              /\ _level = LOGGING_LEVEL_NONE => pc'[t] = "log_ret" /\ out' = out
              /\ _level = LOGGING_LEVEL_ALL => pc'[t] = "log_lock"
        /\ pc[t] = "aq_test" /\ pc'[t] # "aq_test" /\ _level = LOGGING_LEVEL_NONE =>
              pc'[t] = "aq_ret" /\ fd'[t] = NULL

(***************************************************************************)
(* C10: with the threshold at LOGGING_LEVEL_NONE no call of logging_log    *)
(* writes anything and logging_aquire_fd returns NULL, whatever the level; *)
(* with the threshold at LOGGING_LEVEL_ALL every call of logging_log       *)
(* writes.                                                                 *)
(***************************************************************************)
C10_NoneAndAll == [][C10_Step]_vars

\* the writes of the running logging_log of thread t
OwnWrites(t) == LastWrites(t, wr[t])

C11_Test ==
    \A t \in Threads :
        pc[t] = "log_ts" /\ pc'[t] # "log_ts" =>
            /\ pc'[t] = IF _timestamp_printed # 0 THEN "log_at" ELSE "log_close"
            /\ out' = out

C11_Line ==
    \A t \in Threads :
        /\ wr[t] <= Len(WritesOf(t))
        /\ pc[t] = "log_ts" => wr[t] = 1 /\ PartsAt(OwnWrites(t), 1, 1, StampedLine)
        /\ pc[t] = "log_at" => wr[t] = 1 /\ PartsAt(OwnWrites(t), 1, 1, StampedLine)
        /\ pc[t] = "log_stamp" => wr[t] = 2 /\ PartsAt(OwnWrites(t), 1, 2, StampedLine)
        /\ pc[t] = "log_close" =>
              \/ wr[t] = 1 /\ PartsAt(OwnWrites(t), 1, 1, PlainLine)
              \/ wr[t] = 3 /\ PartsAt(OwnWrites(t), 1, 3, StampedLine)
        /\ pc[t] \in {"log_unlock", "log_flush"} \/ (pc[t] = "log_ret" /\ wr[t] > 0) =>
              \/ /\ wr[t] = Len(PlainLine)
                 /\ CompleteAt(OwnWrites(t), 1, PlainLine)
                 /\ \A i \in 1..wr[t] : OwnWrites(t)[i].txt # "@"
              \/ /\ wr[t] = Len(StampedLine)
                 /\ CompleteAt(OwnWrites(t), 1, StampedLine)
                 /\ OwnWrites(t)[2].txt = "@"
                 /\ OwnWrites(t)[3].txt = "DD.MM.YYYY/HH:MM:SS"
                 /\ OwnWrites(t)[4].txt = "] "

(***************************************************************************)
(* C11: a line has the segment "@" and timestamp exactly when              *)
(* _timestamp_printed is not 0 at the test of line 175, which the message  *)
(* makes once, after its tag: read as 0 the line is tag, "] ", module,     *)
(* body, newline and has no "@"; read as not 0 the "@" and the timestamp   *)
(* stand between the tag and the "] ".                                     *)
(***************************************************************************)
C11_Timestamp == []C11_Line /\ [][C11_Test]_vars

\* a stamped line was written, the flag was cleared, and a second message
\* has been written without the segment
C11_Witness ==
    \E t \in Threads :
        /\ pc[t] = "log_ret"
        /\ wr[t] = Len(PlainLine)
        /\ _timestamp_printed = 0
        /\ \E i \in DOMAIN out : out[i].part = "stamp"

\* a step of one of the setters
SetterStep == ncfg' # ncfg

C12_Frame ==
    SetterStep =>
        /\ UNCHANGED <<print_mutex, closed, out, pc, op, level, fd, nx, cnt, npass>>
        /\ \/ UNCHANGED <<_timestamp_printed, _destination, lastdest>>
           \/ UNCHANGED <<_level, _destination, lastdest>>
           \/ UNCHANGED <<_level, _timestamp_printed>>
        /\ _destination' \in {lastdest', _destination}

\* the application has a call left to make
MayConfigure == print_mutex # Destroyed /\ cnt + ncfg < MaxOps

C12_NoWait ==
    MayConfigure =>
        /\ \A l \in Levels : ENABLED (Budget /\ logging_set_level(l))
        /\ \A d \in Streams \cup {NULL} : ENABLED (Budget /\ logging_set_destination(d))
        /\ \A b \in {0, 1} : ENABLED (Budget /\ logging_set_timestamp_printed(b))
        /\ logging_get_level = _level
        /\ logging_get_destination = _destination

(***************************************************************************)
(* C12: logging_set_level, logging_set_destination and                     *)
(* logging_set_timestamp_printed are one step each that can be taken in    *)
(* every state between the static initialisation and logging_free, also    *)
(* while a thread holds the mutex; the step leaves the mutex, the output,  *)
(* the closed streams and the threads alone and changes at most the one    *)
(* variable the setter is for.  logging_get_level and                      *)
(* logging_get_destination are reads of _level and _destination.           *)
(***************************************************************************)
C12_Accessors == []C12_NoWait /\ [][C12_Frame]_vars

\* the flag was cleared while a thread was between the "@" and the timestamp
\* of its line, holding the mutex
C12_Witness ==
    \E t \in Threads :
        /\ pc[t] = "log_stamp"
        /\ print_mutex = t
        /\ _timestamp_printed = 0
        /\ ncfg > 0

\* the statements of logging_log in the order of the source
LogOrder ==
    <<"log_test", "log_lock", "log_tag", "log_ts", "log_at", "log_stamp", "log_close",
      "log_module", "log_body", "log_nl", "log_unlock", "log_flush", "log_ret">>

Rank(l) == CHOOSE i \in DOMAIN LogOrder : LogOrder[i] = l

InLog(l) == \E i \in DOMAIN LogOrder : LogOrder[i] = l

C13_Step ==
    \A t \in Threads :
        InLog(pc[t]) /\ pc'[t] # pc[t] /\ pc[t] # "log_ret" =>
            /\ InLog(pc'[t])
            /\ Rank(pc'[t]) > Rank(pc[t])
            /\ pc[t] = "log_test" =>
                  /\ print_mutex' = print_mutex /\ out' = out
                  /\ pc'[t] \in {"log_lock", "log_ret"}
            /\ pc[t] = "log_lock" =>
                  /\ print_mutex = Unlocked /\ print_mutex' = t /\ out' = out
                  /\ pc'[t] = "log_tag"
            /\ pc[t] \in InLine =>
                  /\ print_mutex = t /\ print_mutex' = t
                  /\ pc'[t] \in InLine \cup {"log_unlock"}
                  /\ flushed'[t] = "-"
            /\ pc[t] = "log_unlock" =>
                  /\ print_mutex = t /\ print_mutex' = Unlocked /\ out' = out
                  /\ pc'[t] = "log_flush"
                  /\ flushed'[t] = "-"
            /\ pc[t] = "log_flush" =>
                  /\ print_mutex # t /\ print_mutex' = print_mutex /\ out' = out
                  /\ pc'[t] = "log_ret"
                  /\ flushed'[t] = _destination

C13_State ==
    \A t \in Threads :
        /\ pc[t] \in InLine \cup {"log_unlock"} => print_mutex = t
        /\ pc[t] \in {"log_unlock", "log_flush"} =>
              /\ flushed[t] = "-"
              /\ \/ CompleteAt(OwnWrites(t), 1, StampedLine)
                 \/ CompleteAt(OwnWrites(t), 1, PlainLine)
        /\ pc[t] = "log_flush" => print_mutex # t
        /\ pc[t] = "log_ret" =>
              IF wr[t] > 0
              THEN print_mutex # t /\ fd[t] = NULL /\ flushed[t] \in Streams
              ELSE flushed[t] = "-"

(***************************************************************************)
(* C13: a logging_log call whose level passes the test makes the test      *)
(* without taking the mutex, then locks it, writes its line while holding  *)
(* it, unlocks it, flushes the destination and returns, in this order: the *)
(* flush comes after the unlock and before the return, and at the return   *)
(* the thread does not hold the mutex.                                     *)
(***************************************************************************)
C13_Order == []C13_State /\ [][C13_Step]_vars

\* a message is written and flushed and its call is about to return while
\* the other thread already holds the mutex
C13_Witness ==
    \E t, u \in Threads :
        /\ pc[t] = "log_ret" /\ wr[t] > 0 /\ flushed[t] # "-"
        /\ print_mutex = u /\ u # t

\* thread t is in logging_aquire_fd between the unlock of its opening line
\* (line 185, called from line 209) and the lock of line 210
InWindow(t) == op[t] = "aquire" /\ pc[t] \in {"log_flush", "log_ret", "aq_lock"}

C14_Released ==
    \A t \in Threads :
        InWindow(t) =>
            /\ print_mutex # t
            /\ fd[t] = NULL
            /\ pc[t] # "log_flush" => wr[t] \in {0, Len(PlainLine), Len(StampedLine)}
            /\ \A u \in Threads \ {t} :
                  /\ print_mutex = Unlocked /\ pc[u] = "log_lock" => ENABLED log_lock(u)
                  /\ print_mutex = Unlocked /\ pc[u] = "aq_lock" => ENABLED aq_lock(u)

C14_Step ==
    \A t \in Threads :
        /\ op[t] = "aquire" /\ pc[t] = "log_unlock" /\ pc'[t] # pc[t] =>
              print_mutex' = Unlocked /\ InWindow(t)'
        /\ pc[t] = "aq_lock" /\ pc'[t] # pc[t] =>
              print_mutex = Unlocked /\ print_mutex' = t

(***************************************************************************)
(* C14: logging_aquire_fd does not keep the mutex from its opening line to *)
(* the handle: the unlock at the end of the opening line frees it, the     *)
(* lock of line 210 takes it anew, and in between the thread does not hold *)
(* it, so that a thread waiting at a lock can take it and write.           *)
(***************************************************************************)
C14_NotAtomic == []C14_Released /\ [][C14_Step]_vars

\* the output is the opening line of one thread, then a complete line of the
\* other thread, then what the first thread wrote through its handle
C14_Witness ==
    \E t, u \in Threads :
        \E i, k \in DOMAIN out :
            /\ t # u
            /\ i + 1 < k
            /\ out[i].th = t /\ out[i].part = "nl"
            /\ out[i - 1].txt = "*** External logging started..."
            /\ out[k].th = t /\ out[k].part = "ext"
            /\ \A j \in i + 1 .. k - 1 : out[j].th = u /\ out[j].dst = out[k].dst
            /\ out[i].dst = out[k].dst
            /\ CountLines(SubSeq(out, i + 1, k - 1), 1) = 1

C15_Step ==
    \A t \in Threads :
        /\ pc[t] = "rl_unlock" /\ pc'[t] # pc[t] =>
              /\ print_mutex = t /\ print_mutex' = Unlocked
              /\ out' = out
              /\ pc'[t] = "log_test"
        /\ op[t] = "release" /\ pc[t] = "log_test" /\ pc'[t] # pc[t] =>
              /\ pc'[t] = IF level[t] <= _level THEN "log_lock" ELSE "log_ret"
              /\ out' = out /\ print_mutex' = print_mutex
        /\ op[t] = "release" /\ pc[t] = "log_lock" /\ pc'[t] # pc[t] =>
              print_mutex = Unlocked /\ print_mutex' = t
        /\ op[t] = "release" /\ pc[t] = "log_ret" /\ pc'[t] # pc[t] =>
              pc'[t] = "rl_ret" /\ out' = out /\ print_mutex' = print_mutex

C15_State ==
    \A t \in Threads :
        op[t] = "release" =>
            /\ pc[t] \in {"log_test", "log_lock", "log_flush", "log_ret", "rl_ret"} =>
                  print_mutex # t /\ fd[t] = NULL
            /\ pc[t] = "log_ret" =>
                  IF level[t] <= seen[t]
                  THEN IsLineOf(OwnWrites(t), level[t], "Logging",
                                "*** External logging ended...")
                  ELSE wr[t] = 0

(***************************************************************************)
(* C15: logging_release_fd unlocks the mutex first, whatever its level,    *)
(* and then calls logging_log: the closing line is written, under a lock   *)
(* taken anew, exactly when the level is at most the _level read by that   *)
(* call's test; the level is not compared with the one given to            *)
(* logging_aquire_fd, and from the unlock to the return the thread does    *)
(* not hold the mutex outside the closing line.                            *)
(***************************************************************************)
C15_Release == []C15_State /\ [][C15_Step]_vars

\* a handle acquired with level 0 has been released with level 100 under a
\* threshold of 0: the mutex is free and no closing line was written
C15_Witness ==
    \E t \in Threads :
        /\ pc[t] = "rl_ret"
        /\ level[t] = 100 /\ _level = 0
        /\ print_mutex = Unlocked
        /\ \E i \in DOMAIN out :
              /\ out[i].th = t /\ out[i].part = "tag" /\ out[i].num = 0
              /\ \E k \in {2, 4} : i + k <= Len(out) /\ out[i + k].txt = "Logging"
        /\ \A i \in DOMAIN out : out[i].txt # "*** External logging ended..."

(***************************************************************************)
(* C16: when logging_aquire_fd returns a handle, the line                  *)
(* "*** External logging started..." of module "Logging" has been written  *)
(* by the calling thread.                                                  *)
(***************************************************************************)
C16_BeginLine ==
    \A t \in Threads :
        pc[t] = "aq_ret" /\ fd[t] # NULL =>
            \E i \in DOMAIN out :
                /\ out[i].th = t
                /\ out[i].part = "body"
                /\ out[i].txt = "*** External logging started..."

(***************************************************************************)
(* C17: all parts of the line a logging_log call has written are on one    *)
(* stream, and the stream the call flushes is that stream.                 *)
(***************************************************************************)
C17_OneStream ==
    \A t \in Threads :
        /\ wr[t] > 0 =>
              \A i \in 1..wr[t] : OwnWrites(t)[i].dst = OwnWrites(t)[1].dst
        /\ pc[t] = "log_ret" /\ wr[t] > 0 => flushed[t] = OwnWrites(t)[1].dst

(***************************************************************************)
(* C18: under the use the library asks for and a fair scheduler, every     *)
(* call of logging_log, logging_aquire_fd and logging_release_fd returns:  *)
(* no thread waits for the mutex for ever.                                 *)
(***************************************************************************)
C18_Progress == \A t \in Threads : (pc[t] # "idle") ~> (pc[t] = "idle")

\* a thread has written its opening line and waits at the lock of line 210
\* for the mutex, which the other thread holds with its handle
C18_Witness ==
    \E t, u \in Threads :
        /\ pc[t] = "aq_lock"
        /\ fd[u] # NULL /\ print_mutex = u /\ pc[u] = "idle"

\* where a thread that holds a handle can be inside a call it made with it
Reentered == {"log_test", "log_lock", "log_ret", "aq_lock"}

C19_Step ==
    \A t \in Threads :
        fd[t] # NULL =>
            /\ pc[t] = "log_test" /\ pc'[t] # pc[t] =>
                  /\ pc'[t] = IF level[t] <= _level THEN "log_lock" ELSE "log_ret"
                  /\ print_mutex' = print_mutex /\ out' = out
            /\ pc[t] = "aq_test" /\ pc'[t] # pc[t] =>
                  /\ pc'[t] = IF level[t] <= _level THEN "log_test" ELSE "aq_ret"
                  /\ print_mutex' = print_mutex /\ out' = out /\ fd'[t] = fd[t]
            /\ pc[t] \in {"log_lock", "aq_lock"} => pc'[t] = pc[t] /\ fd'[t] = fd[t]
            /\ pc[t] = "log_ret" /\ pc'[t] # pc[t] =>
                  /\ pc'[t] = IF op[t] = "log" THEN "idle" ELSE "aq_lock"
                  /\ print_mutex' = print_mutex
            /\ op[t] = "aquire" /\ pc[t] \in Reentered => pc'[t] \in Reentered

C19_State ==
    \A t \in Threads :
        fd[t] # NULL =>
            /\ print_mutex = t
            /\ pc[t] \in Reentered \cup {"idle", "aq_test", "aq_ret", "rl_unlock"}
            /\ pc[t] = "log_ret" => wr[t] = 0 /\ level[t] > seen[t]
            /\ pc[t] = "log_lock" => level[t] <= seen[t] /\ ~ENABLED log_lock(t)
            /\ pc[t] = "aq_lock" => ~ENABLED aq_lock(t)

(***************************************************************************)
(* C19: a thread that holds the handle and calls logging_log or            *)
(* logging_aquire_fd with a level that passes the test comes to a          *)
(* pthread_mutex_lock of the mutex it holds and stays there: it never      *)
(* returns.  With a level that does not pass, the call returns without a   *)
(* step that touches the mutex or writes.                                  *)
(***************************************************************************)
C19_NotReentrant == []C19_State /\ [][C19_Step]_vars

\* a thread that holds the handle has called logging_aquire_fd again with a
\* passing level and waits at the lock of line 162 for itself
C19_Witness ==
    \E t \in Threads :
        /\ fd[t] # NULL /\ print_mutex = t
        /\ op[t] = "aquire" /\ pc[t] = "log_lock"

=============================================================================
